---- MODULE Spec2Model ----
(***************************************************************************)
(* Model of the srs-preprocessing stabilization pipeline.                  *)
(*                                                                         *)
(*   Spec     the two stabilizers, ImageStabilizer.stabilize (followed by  *)
(*            stabilize_file's write) and RANSACStabilizer.stabilize, run  *)
(*            on one input volume, one loop iteration per step.            *)
(*   SpecApi  the /stabilize and /convert-oir request handlers.            *)
(*                                                                         *)
(* Arrays are records [dtype, shape, val]; val maps an index tuple         *)
(* (1-based) to an integer.  numpy names (python objects) are references   *)
(* into heap, so that aliasing and in-place writes are visible.  OpenCV's  *)
(* detectors and trackers are library code: their results are inputs       *)
(* drawn from small sets, except where the library's contract fixes them   *)
(* (identical frames give zero displacement; a uniform frame has no        *)
(* corners; an empty point set makes calcOpticalFlowPyrLK raise).          *)
(* Floating point is modelled by exact arithmetic with the truncating      *)
(* casts of astype; displacements are whole pixels.                        *)
(***************************************************************************)
EXTENDS Integers, Sequences, FiniteSets, TLC

VARIABLES
    method,              \* which stabilizer runs: "optical_flow" | "ransac"
    axes,                \* the axis labels given to stabilize (series.axes)
    input,               \* the caller's volume as it was before the call
    heap,                \* python objects: object id -> array
    data,                \* reference to the input volume
    data_uint8,          \* reference to the 8-bit tracking volume (0: unset)
    stabilized_data,     \* reference to the output volume (0: unset)
    data_min, data_max,  \* global minimum and maximum of the volume
    div_by_zero,         \* the normalization divided by a zero range
    t_index,             \* position of 'T' (0-based), -1 when absent
    num_frames,
    i,                   \* loop variable of the frame loop (0-based)
    ref_gray,            \* the reference tracking frame
    p0,                  \* tracked feature set: "None" | "pts"
    cumulative_shift,    \* <<cumulative_shift_x, cumulative_shift_y>>
    shift,               \* <<shift_x, shift_y>> of the last clamped step
    translation_matrix,  \* <<tx, ty>> of the last warp, <<>> when none yet
    ref_des,             \* ORB descriptors of frame 0: "None" | "des"
    matches,             \* len(matches); -1 while the name is unbound
    current_frame,       \* the frame of the last loop iteration (ransac)
    outcome,             \* per time index: "ok" | "insufficient" | "pending"
    pc,                  \* position in stabilize
    exc,                 \* the exception raised, "" when none
    result,              \* reference returned by stabilize (0: nothing)
    out_file,            \* the array written to output_path, NoArray if none
    curr_des,            \* ORB descriptors of the frame of the last loop
                         \* iteration (ransac): "None" | "des"
    lk,                  \* per time step processed: st.sum() and the median
                         \* displacement of calcOpticalFlowPyrLK's answer
    req,                 \* the API requests (SpecApi)
    _vm_initialized,     \* OIRConverter._vm_initialized (SpecConv)
    _lock,               \* OIRConverter._lock: 0 free, else the holding thread
    vm_starts,           \* how many times javabridge.start_vm was called
    thr,                 \* the threads that construct and use the converter
    output_dir,          \* per thread: the file names in its output_dir
    vm,                  \* the Java VM of the process: "none" | "running" | "dead"
    kills,               \* every javabridge.kill_vm so far: who called it and
                         \* who held _lock at that moment
    sd,                  \* position of the API's shutdown handler
    program,             \* who merges: "api" (convert_oir_files) | "cli" (main)
    tiff_files,          \* the converted files found by glob("*.ome.tiff")
    images,              \* the files as read, in sorted order
    merge_pc,            \* position in the merge
    merge_exc,           \* the error the merge ended with, "" when none
    merged_file,         \* merged.ome.tiff, NoFile until written
    stabilized_file      \* stabilized.ome.tiff: "none" | "written"

stabVars == <<method, axes, input, heap, data, data_uint8, stabilized_data,
              data_min, data_max, div_by_zero, t_index, num_frames, i,
              ref_gray, p0, cumulative_shift, shift, translation_matrix,
              ref_des, matches, current_frame, outcome, pc, exc, result,
              out_file, curr_des, lk>>

convVars == <<_vm_initialized, _lock, vm_starts, thr, output_dir, vm, kills, sd>>

mergeVars == <<program, tiff_files, images, merge_pc, merge_exc, merged_file,
               stabilized_file>>

vars == <<stabVars, req, convVars, mergeVars>>

----------------------------------------------------------------------------
(* Bounds of the model *)

MaxFrames == 3          \* time steps of the input volume: 1..MaxFrames
MaxPixel == 2           \* pixel levels 0..MaxPixel
FrameW == 3             \* width of a frame (X)
Depth == 2              \* planes along Z when the volume has a Z axis

(* Program constants *)

max_shift == 20         \* clamp radius
MinTracked == 10        \* st.sum() >= 10
MinMatches == 3         \* len(matches) >= 3
Uint8Max == 255         \* the tracking domain [0, 255]

----------------------------------------------------------------------------
(* numpy arrays *)

NoArray == [dtype |-> "none", shape |-> <<>>, val |-> <<>>]

SetMax(S) == CHOOSE m \in S : \A x \in S : x <= m
SetMin(S) == CHOOSE m \in S : \A x \in S : m <= x

\* every index tuple of an array of this shape
Indices(shape) ==
    IF Len(shape) = 0 THEN {<<>>}
    ELSE {idx \in [1..Len(shape) -> 1..SetMax({shape[k] : k \in 1..Len(shape)})] :
             \A k \in 1..Len(shape) : idx[k] <= shape[k]}

RemoveAt(s, k) == [j \in 1..(Len(s) - 1) |-> IF j < k THEN s[j] ELSE s[j + 1]]

InsertAt(s, k, v) ==
    [j \in 1..(Len(s) + 1) |-> IF j < k THEN s[j] ELSE IF j = k THEN v ELSE s[j - 1]]

Elements(a) == {a.val[idx] : idx \in Indices(a.shape)}

ArrMin(a) == SetMin(Elements(a))
ArrMax(a) == SetMax(Elements(a))

\* data[tuple(slicing)] with slicing[t_index] = frame_number: a view of one
\* time step (t and n are 0-based, as in the source)
TimeSlice(a, t, n) ==
    [dtype |-> a.dtype,
     shape |-> RemoveAt(a.shape, t + 1),
     val   |-> [idx \in Indices(RemoveAt(a.shape, t + 1)) |->
                   a.val[InsertAt(idx, t + 1, n + 1)]]]

\* a projection by the minimum along the leading dimension
MaxAxis0_Min(a) ==
    [dtype |-> a.dtype,
     shape |-> Tail(a.shape),
     val   |-> [idx \in Indices(Tail(a.shape)) |->
                   SetMin({a.val[<<k>> \o idx] : k \in 1..a.shape[1]})]]

\* frame.max(axis=0)
MaxAxis0(a) ==
    [dtype |-> a.dtype,
     shape |-> Tail(a.shape),
     val   |-> [idx \in Indices(Tail(a.shape)) |->
                   SetMax({a.val[<<k>> \o idx] : k \in 1..a.shape[1]})]]

RECURSIVE Collapse(_)
Collapse(frame) ==
    IF Len(frame.shape) > 2 THEN Collapse(MaxAxis0(frame)) ELSE frame

_get_frame(a, t, frame_number) == Collapse(TimeSlice(a, t, frame_number))

\* the last r entries of an index tuple: where numpy's broadcasting reads a
\* frame of rank r that is assigned to a slice of higher rank
Trailing(idx, r) == SubSeq(idx, Len(idx) - r + 1, Len(idx))

\* an assignment that leaves the time index out of the slicing
_set_frame_AllTimeSteps(a, t, frame_number, frame_data) ==
    [a EXCEPT !.val =
        [idx \in Indices(a.shape) |->
            frame_data.val[Trailing(RemoveAt(idx, t + 1), Len(frame_data.shape))]]]

\* data[tuple(slicing)] = frame_data: the frame is broadcast over the
\* slice's leading dimensions; the array keeps its dtype and shape
_set_frame(a, t, frame_number, frame_data) ==
    [a EXCEPT !.val =
        [idx \in Indices(a.shape) |->
            IF idx[t + 1] = frame_number + 1
            THEN frame_data.val[Trailing(RemoveAt(idx, t + 1),
                                         Len(frame_data.shape))]
            ELSE a.val[idx]]]

\* frame.ndim == 2 returns the frame; anything else is unsupported here
GrayscaleOk(frame) == Len(frame.shape) = 2

\* a search that answers 0 when the label is absent
Find_AbsentIsZero(labels, c) ==
    IF \E k \in 1..Len(labels) : labels[k] = c
    THEN SetMin({k \in 1..Len(labels) : labels[k] = c}) - 1
    ELSE 0

\* axes.find('T'): 0-based position of the first 'T', -1 when there is none
Find(labels, c) ==
    IF \E k \in 1..Len(labels) : labels[k] = c
    THEN SetMin({k \in 1..Len(labels) : labels[k] = c}) - 1
    ELSE -1

----------------------------------------------------------------------------
(* Intensity normalization *)

\* astype(np.uint8) of NaN is undefined: the value the build produces
NaNCastOutcomes == {0, Uint8Max}

\* ((x - data_min) / (data_max - data_min) * 255).astype(np.uint8) of one
\* element; nan is what the cast of 0/0 gives when the range is zero
ToTracking(x, lo, hi, nan) ==
    IF hi = lo THEN nan ELSE ((x - lo) * Uint8Max) \div (hi - lo)

\* (q.astype(np.float32) / 255.0 * (data_max - data_min) + data_min)
\*     .astype(data.dtype) of one element
FromTracking(q, lo, hi) == lo + (q * (hi - lo)) \div Uint8Max

\* the 8-bit tracking volume of lines 43-44 / 36-37
NormalizeVolume(a, lo, hi, nan) ==
    [dtype |-> "uint8",
     shape |-> a.shape,
     val   |-> [idx \in Indices(a.shape) |-> ToTracking(a.val[idx], lo, hi, nan)]]

\* lines 129-132: the frame scaled back and cast to the volume's dtype
Denormalize(frame, lo, hi, dtype) ==
    [dtype |-> dtype,
     shape |-> frame.shape,
     val   |-> [idx \in Indices(frame.shape) |-> FromTracking(frame.val[idx], lo, hi)]]

----------------------------------------------------------------------------
(* Shift clamp and warp *)

\* np.clip(v, lo, hi)
Clip(v, lo, hi) == IF v < lo THEN lo ELSE IF v > hi THEN hi ELSE v

\* cv2.warpAffine(frame, [[1,0,tx],[0,1,ty]], (w, h), INTER_LINEAR): the
\* output has the frame's size, dst(y, x) = src(y - ty, x - tx), and samples
\* outside the source are 0 (constant border)
WarpAffine(frame, tx, ty) ==
    [frame EXCEPT !.val =
        [idx \in Indices(frame.shape) |->
            IF /\ idx[1] - ty \in 1..frame.shape[1]
               /\ idx[2] - tx \in 1..frame.shape[2]
            THEN frame.val[<<idx[1] - ty, idx[2] - tx>>]
            ELSE 0]]

----------------------------------------------------------------------------
(* Python objects *)

ObjIds == 1..3

\* the id a newly allocated array gets
Fresh(h) == SetMin({o \in ObjIds : h[o] = NoArray})

\* an output that is the input array itself, not a copy
NpCopyRef_Alias(h, src) == src

\* np.copy(data): the reference of the copy, a newly allocated array
NpCopyRef(h, src) == Fresh(h)

\* the heap once array a is stored under reference r
Store(h, r, a) == [h EXCEPT ![r] = a]

----------------------------------------------------------------------------
(* What OpenCV may answer *)

IsUniform(frame) == Cardinality(Elements(frame)) = 1

\* cv2.goodFeaturesToTrack: None when the frame has no corner (always so on
\* a uniform frame), else a point set
GoodFeatures(gray) == IF IsUniform(gray) THEN {"None"} ELSE {"None", "pts"}

\* st.sum() of calcOpticalFlowPyrLK: how many points were tracked
TrackedCounts == {MinTracked - 1, MinTracked}

\* raw per-step displacement estimates <<dx, dy>>, in whole pixels
RawEstimates == {<<1, 0>>, <<max_shift + 5, -(max_shift + 5)>>,
                 <<-(max_shift + 30), max_shift + 1>>}

\* the median displacement of the tracked points: zero between identical frames
MedianDisplacements(ref, cur) == IF ref = cur THEN {<<0, 0>>} ELSE RawEstimates

\* orb.detectAndCompute: descriptors, or None when no keypoint is found
DetectAndCompute(gray) == IF IsUniform(gray) THEN {"None"} ELSE {"None", "des"}

\* len(bf.match(ref_des, curr_des))
MatchCounts == {0, MinMatches - 1, MinMatches}

----------------------------------------------------------------------------
(* Input volumes *)

AxesNone == <<"None">>      \* stabilize(data) called with axes=None

AxesChoices == {<<"T", "Y", "X">>, <<"T", "Z", "Y", "X">>,
                <<"Z", "T", "Y", "X">>, <<"Z", "Y", "X">>, AxesNone}

Dtypes == {"uint8", "uint16"}

\* grey value of one pixel level in a volume of this dtype
PixelStep(dtype) == IF dtype = "uint8" THEN 1 ELSE 500

SmallerOf(a, b) == IF a < b THEN a ELSE b

\* level of pixel x in plane z of the k-th time-slice pattern:
\* 1 a uniform slice, 2 a ramp (reversed on even planes), 3 a rotated ramp
\* on odd planes over a dark even plane
PoolPixel(k, z, x) ==
    CASE k = 1 -> 0
      [] k = 2 -> IF z % 2 = 1 THEN SmallerOf(x - 1, MaxPixel)
                  ELSE MaxPixel - SmallerOf(x - 1, MaxPixel)
      [] OTHER -> IF z % 2 = 1 THEN (x + 1) % (MaxPixel + 1) ELSE 0

PoolPatterns == 1..3

\* the labels of an axis string, and where one stands (0: nowhere)
Labels(ax) == {ax[k] : k \in 1..Len(ax)}
PosOf(ax, c) == IF c \in Labels(ax) THEN CHOOSE k \in 1..Len(ax) : ax[k] = c ELSE 0

\* the labels the array is laid out by (axes=None: time first)
Layout(ax) == IF ax = AxesNone THEN <<"T", "Y", "X">> ELSE ax

MkVolume(ax, dtype, T, pick) ==
    LET lay == Layout(ax)
        shape == [k \in 1..Len(lay) |->
                     CASE lay[k] = "T" -> T
                       [] lay[k] = "Z" -> Depth
                       [] lay[k] = "Y" -> 1
                       [] OTHER -> FrameW]
        tpos == PosOf(lay, "T")
        zpos == PosOf(lay, "Z")
    IN [dtype |-> dtype,
        shape |-> shape,
        val   |-> [idx \in Indices(shape) |->
                     PixelStep(dtype) *
                     PoolPixel(pick[IF tpos = 0 THEN 1 ELSE idx[tpos]],
                               IF zpos = 0 THEN 1 ELSE idx[zpos],
                               idx[Len(lay)])]]

----------------------------------------------------------------------------
(* Initial state: a stabilizer is about to run on a volume *)

MissingTimeAxis == "ValueError: No time axis 'T' found in data"
UnsupportedFrame == "ValueError: Unsupported frame format"
LKAssertion == "cv2.error: calcOpticalFlowPyrLK: prevPts is empty"
UnboundMatches == "UnboundLocalError: matches"
StaleMatches == "IndexError: tuple index out of range"

\* no API request is in flight while a stabilizer is studied on its own
ApiIdle == <<>>

\* no converter exists outside SpecConv
ConvIdle ==
    /\ _vm_initialized = FALSE
    /\ _lock = 0
    /\ vm_starts = 0
    /\ thr = <<>>
    /\ output_dir = <<>>
    /\ vm = "none"
    /\ kills = {}
    /\ sd = "idle"

NoFile == [axes |-> <<>>, shape |-> <<>>, order |-> <<>>]

\* nothing is being merged outside SpecMerge
MergeIdle ==
    /\ program = ""
    /\ tiff_files = {}
    /\ images = <<>>
    /\ merge_pc = "idle"
    /\ merge_exc = ""
    /\ merged_file = NoFile
    /\ stabilized_file = "none"

Init ==
    /\ method \in {"optical_flow", "ransac"}
    /\ axes \in AxesChoices
    /\ method = "ransac" => axes # AxesNone     \* series.axes is a string
    /\ \E dtype \in Dtypes, T \in 1..MaxFrames :
         \E pick \in [1..T -> PoolPatterns] :
            /\ "T" \notin Labels(Layout(axes)) => T = 1
            /\ input = MkVolume(axes, dtype, T, pick)
    /\ heap = [o \in ObjIds |-> IF o = 1 THEN input ELSE NoArray]
    /\ data = 1
    /\ data_uint8 = 0
    /\ stabilized_data = 0
    /\ data_min = 0
    /\ data_max = 0
    /\ div_by_zero = FALSE
    /\ t_index = -1
    /\ num_frames = 0
    /\ i = -1
    /\ ref_gray = NoArray
    /\ p0 = "None"
    /\ cumulative_shift = <<0, 0>>
    /\ shift = <<0, 0>>
    /\ translation_matrix = <<>>
    /\ ref_des = "None"
    /\ matches = -1
    /\ current_frame = NoArray
    /\ outcome = <<>>
    /\ pc = "start"
    /\ exc = ""
    /\ result = 0
    /\ out_file = NoArray
    /\ lk = <<>>
    /\ curr_des = "None"
    /\ req = ApiIdle
    /\ ConvIdle
    /\ MergeIdle

Raise(e) ==
    /\ pc' = "raised"
    /\ exc' = e

----------------------------------------------------------------------------
(* ImageStabilizer.stabilize *)

\* lines 32-38: locate the time axis
OF_LocateAxis ==
    /\ method = "optical_flow"
    /\ pc = "start"
    /\ t_index' = IF axes = AxesNone THEN 0 ELSE Find(axes, "T")
    /\ IF t_index' = -1
       THEN Raise(MissingTimeAxis)
       ELSE pc' = "normalize" /\ exc' = exc
    /\ UNCHANGED <<method, axes, input, heap, data, data_uint8, stabilized_data,
                   data_min, data_max, div_by_zero, num_frames, i, ref_gray, p0,
                   cumulative_shift, shift, translation_matrix, ref_des, matches,
                   current_frame, outcome, result, out_file, lk, curr_des, req, convVars, mergeVars>>

\* lines 40-44 (34-37 in the feature-match stabilizer): the 8-bit tracking
\* copy, a new array; a zero range is divided by
Normalize(next) ==
    LET lo == ArrMin(heap[data])
        hi == ArrMax(heap[data])
    IN /\ data_min' = lo
       /\ data_max' = hi
       /\ div_by_zero' = (hi - lo = 0)
       /\ \E nan \in (IF hi = lo THEN NaNCastOutcomes ELSE {0}) :
            /\ data_uint8' = Fresh(heap)
            /\ heap' = Store(heap, Fresh(heap), NormalizeVolume(heap[data], lo, hi, nan))
       /\ pc' = next

OF_Normalize ==
    /\ method = "optical_flow"
    /\ pc = "normalize"
    /\ Normalize("prepare")
    /\ UNCHANGED <<method, axes, input, data, stabilized_data, t_index,
                   num_frames, i, ref_gray, p0, cumulative_shift, shift,
                   translation_matrix, ref_des, matches, current_frame, outcome,
                   exc, result, out_file, lk, curr_des, req, convVars, mergeVars>>

\* an output array copied from the 8-bit tracking volume
Allocate_FromTracking ==
    /\ num_frames' = heap[data].shape[t_index + 1]
    /\ stabilized_data' = NpCopyRef(heap, data_uint8)
    /\ heap' = Store(heap, NpCopyRef(heap, data_uint8), heap[data_uint8])
    /\ outcome' = [n \in 1..heap[data].shape[t_index + 1] |-> "pending"]

\* lines 46-50 (46-50): the frame count and the output array
Allocate ==
    /\ num_frames' = heap[data].shape[t_index + 1]
    /\ stabilized_data' = NpCopyRef(heap, data)
    /\ heap' = Store(heap, NpCopyRef(heap, data), heap[data])
    /\ outcome' = [n \in 1..heap[data].shape[t_index + 1] |-> "pending"]

\* lines 46-69: output array, reference frame, features, zero shift
OF_Prepare ==
    /\ method = "optical_flow"
    /\ pc = "prepare"
    /\ Allocate
    /\ LET ref_frame == _get_frame(heap[data_uint8], t_index, 0)
       IN IF GrayscaleOk(ref_frame)
          THEN /\ ref_gray' = ref_frame
               /\ p0' \in GoodFeatures(ref_frame)
               /\ pc' = "loop" /\ exc' = exc
          ELSE /\ Raise(UnsupportedFrame)
               /\ UNCHANGED <<ref_gray, p0>>
    /\ cumulative_shift' = <<0, 0>>
    /\ UNCHANGED <<method, axes, input, data, data_uint8, data_min, data_max,
                   div_by_zero, t_index, i, shift, translation_matrix, ref_des,
                   matches, current_frame, result, out_file, lk, curr_des, req, convVars, mergeVars>>

\* lines 128-136: scale the frame back, cast, write it into time step n
WriteBack(h, n, stabilized_frame) ==
    Store(h, stabilized_data,
          _set_frame(h[stabilized_data], t_index, n,
                     Denormalize(stabilized_frame, data_min, data_max,
                                 h[data].dtype)))

\* a clamp that bounds the step from above only
ClampShift_UpperOnly(d) ==
    <<SmallerOf(d[1], max_shift), SmallerOf(d[2], max_shift)>>

\* lines 90-93: the clamped step
ClampShift(d) == <<Clip(d[1], -max_shift, max_shift), Clip(d[2], -max_shift, max_shift)>>

\* a translation by the cumulative shift itself
Translation_NotNegated(cum) == cum

\* lines 99-103: the translation the warp applies
Translation(cum) == <<-cum[1], -cum[2]>>

\* a threshold that asks for more than 10 tracked points
EnoughTracked_MoreThan(tracked) == tracked > MinTracked

\* line 80: enough points were tracked
EnoughTracked(tracked) == tracked >= MinTracked

\* lines 71-136: one iteration of the frame loop
OF_Frame ==
    /\ method = "optical_flow"
    /\ pc = "loop"
    /\ i + 1 < num_frames
    /\ i' = i + 1
    /\ LET cur == _get_frame(heap[data_uint8], t_index, i + 1)
       IN IF p0 = "None"
          THEN \* calcOpticalFlowPyrLK asserts on an empty point set
               /\ Raise(LKAssertion)
               /\ current_frame' = cur
               /\ UNCHANGED <<heap, ref_gray, p0, cumulative_shift, shift,
                              translation_matrix, outcome, lk>>
          ELSE \E tracked \in TrackedCounts :
               \E d \in MedianDisplacements(ref_gray, cur) :
               \E np0 \in GoodFeatures(cur) :
                 /\ current_frame' = cur
                 /\ IF EnoughTracked(tracked)
                    THEN /\ shift' = ClampShift(d)
                         /\ cumulative_shift' =
                               <<cumulative_shift[1] + shift'[1],
                                 cumulative_shift[2] + shift'[2]>>
                         /\ translation_matrix' = Translation(cumulative_shift')
                         /\ heap' = WriteBack(heap, i + 1,
                                      WarpAffine(cur, translation_matrix'[1],
                                                 translation_matrix'[2]))
                         /\ ref_gray' = cur
                         /\ p0' = np0
                         /\ outcome' = [outcome EXCEPT ![i + 2] = "ok"]
                         /\ lk' = Append(lk, [st_sum |-> tracked, median |-> d])
                    ELSE /\ heap' = WriteBack(heap, i + 1, cur)
                         /\ outcome' = [outcome EXCEPT ![i + 2] = "insufficient"]
                         /\ lk' = Append(lk, [st_sum |-> tracked, median |-> <<>>])
                         /\ UNCHANGED <<ref_gray, p0, cumulative_shift, shift,
                                        translation_matrix>>
                 /\ UNCHANGED <<pc, exc>>
    /\ UNCHANGED <<method, axes, input, data, data_uint8, stabilized_data,
                   data_min, data_max, div_by_zero, t_index, num_frames,
                   ref_des, matches, result, out_file, curr_des, req, convVars, mergeVars>>

\* line 138: return stabilized_data
OF_Return ==
    /\ method = "optical_flow"
    /\ pc = "loop"
    /\ i + 1 = num_frames
    /\ result' = stabilized_data
    /\ pc' = "returned"
    /\ UNCHANGED <<method, axes, input, heap, data, data_uint8, stabilized_data,
                   data_min, data_max, div_by_zero, t_index, num_frames, i,
                   ref_gray, p0, cumulative_shift, shift, translation_matrix,
                   ref_des, matches, current_frame, outcome, exc, out_file, lk, curr_des, req, convVars, mergeVars>>

\* stabilize_file, lines 160-169: the returned volume is written out
OF_Save ==
    /\ method = "optical_flow"
    /\ pc = "returned"
    /\ out_file' = heap[result]
    /\ pc' = "saved"
    /\ UNCHANGED <<method, axes, input, heap, data, data_uint8, stabilized_data,
                   data_min, data_max, div_by_zero, t_index, num_frames, i,
                   ref_gray, p0, cumulative_shift, shift, translation_matrix,
                   ref_des, matches, current_frame, outcome, exc, result, lk, curr_des, req, convVars, mergeVars>>

----------------------------------------------------------------------------
(* RANSACStabilizer.stabilize *)

\* lines 33-37: normalization comes before the axis check
R_Normalize ==
    /\ method = "ransac"
    /\ pc = "start"
    /\ Normalize("locate")
    /\ UNCHANGED <<method, axes, input, data, stabilized_data, t_index,
                   num_frames, i, ref_gray, p0, cumulative_shift, shift,
                   translation_matrix, ref_des, matches, current_frame, outcome,
                   exc, result, out_file, lk, curr_des, req, convVars, mergeVars>>

\* lines 39-44
R_LocateAxis ==
    /\ method = "ransac"
    /\ pc = "locate"
    /\ t_index' = Find(axes, "T")
    /\ IF t_index' = -1
       THEN Raise(MissingTimeAxis)
       ELSE pc' = "prepare" /\ exc' = exc
    /\ UNCHANGED <<method, axes, input, heap, data, data_uint8, stabilized_data,
                   data_min, data_max, div_by_zero, num_frames, i, ref_gray, p0,
                   cumulative_shift, shift, translation_matrix, ref_des, matches,
                   current_frame, outcome, result, out_file, lk, curr_des, req, convVars, mergeVars>>

\* lines 46-62: output array, reference frame and its descriptors
R_Prepare ==
    /\ method = "ransac"
    /\ pc = "prepare"
    /\ Allocate
    /\ LET ref_frame == _get_frame(heap[data_uint8], t_index, 0)
       IN IF GrayscaleOk(ref_frame)
          THEN /\ ref_gray' = ref_frame
               /\ ref_des' \in DetectAndCompute(ref_frame)
               /\ pc' = "loop" /\ exc' = exc
          ELSE /\ Raise(UnsupportedFrame)
               /\ UNCHANGED <<ref_gray, ref_des>>
    /\ UNCHANGED <<method, axes, input, data, data_uint8, data_min, data_max,
                   div_by_zero, t_index, i, p0, cumulative_shift, shift,
                   translation_matrix, matches, current_frame, result,
                   out_file, lk, curr_des, req, convVars, mergeVars>>

\* a loop iteration that makes the current frame the reference
R_Frame_RefreshesReference ==
    /\ method = "ransac"
    /\ pc = "loop"
    /\ i + 1 < num_frames
    /\ i' = i + 1
    /\ LET cur == _get_frame(heap[data_uint8], t_index, i + 1)
       IN /\ current_frame' = cur
          /\ curr_des' \in (IF cur = ref_gray THEN {ref_des}
                            ELSE DetectAndCompute(cur))
          /\ IF curr_des' # "None" /\ ref_des # "None"
             THEN matches' \in MatchCounts
             ELSE matches' = matches
          /\ ref_gray' = cur
          /\ ref_des' = curr_des'
    /\ UNCHANGED <<method, axes, input, heap, data, data_uint8, stabilized_data,
                   data_min, data_max, div_by_zero, t_index, num_frames,
                   p0, cumulative_shift, shift, translation_matrix,
                   outcome, pc, exc, result, out_file, lk, req, convVars, mergeVars>>

\* lines 64-79: one iteration of the frame loop; it only detects and matches
R_Frame ==
    /\ method = "ransac"
    /\ pc = "loop"
    /\ i + 1 < num_frames
    /\ i' = i + 1
    /\ LET cur == _get_frame(heap[data_uint8], t_index, i + 1)
       IN /\ current_frame' = cur
          /\ curr_des' \in (IF cur = ref_gray THEN {ref_des}
                            ELSE DetectAndCompute(cur))
          /\ IF curr_des' # "None" /\ ref_des # "None"
             THEN matches' \in MatchCounts
             ELSE matches' = matches
    /\ UNCHANGED <<method, axes, input, heap, data, data_uint8, stabilized_data,
                   data_min, data_max, div_by_zero, t_index, num_frames,
                   ref_gray, ref_des, p0, cumulative_shift, shift, translation_matrix,
                   outcome, pc, exc, result, out_file, lk, req, convVars, mergeVars>>

\* estimateAffinePartial2D: None, or a matrix whose translation is an estimate
AffineFits == {<<>>} \cup RawEstimates

\* an after-loop block whose write-back follows the fit as well
R_AfterLoop_WritesFit ==
    /\ method = "ransac"
    /\ pc = "loop"
    /\ i + 1 = num_frames
    /\ IF matches = -1
       THEN /\ Raise(UnboundMatches)
            /\ UNCHANGED <<heap, shift, translation_matrix, outcome>>
       ELSE IF matches >= MinMatches /\ curr_des = "None"
       THEN /\ Raise(StaleMatches)
            /\ UNCHANGED <<heap, shift, translation_matrix, outcome>>
       ELSE IF matches >= MinMatches
       THEN \E matrix \in AffineFits :
              /\ pc' = "save" /\ exc' = exc
              /\ IF matrix # <<>>
                 THEN /\ shift' = ClampShift(matrix)
                      /\ translation_matrix' = shift'
                      /\ outcome' = [outcome EXCEPT ![i + 1] = "ok"]
                      /\ heap' = WriteBack(heap, i,
                                   WarpAffine(current_frame, shift'[1], shift'[2]))
                 ELSE /\ outcome' = [outcome EXCEPT ![i + 1] = "insufficient"]
                      /\ heap' = WriteBack(heap, i, current_frame)
                      /\ UNCHANGED <<shift, translation_matrix>>
       ELSE /\ pc' = "save" /\ exc' = exc
            /\ heap' = WriteBack(heap, i, current_frame)
            /\ outcome' = [outcome EXCEPT ![i + 1] = "insufficient"]
            /\ UNCHANGED <<shift, translation_matrix>>
    /\ UNCHANGED <<method, axes, input, data, data_uint8, stabilized_data,
                   data_min, data_max, div_by_zero, t_index, num_frames, i,
                   ref_gray, p0, cumulative_shift, ref_des, matches,
                   current_frame, result, out_file, lk, curr_des, req, convVars, mergeVars>>

\* lines 83-137: after the loop, one fit on the matches the loop left; only
\* the branch for too few matches writes a frame back.  When the last frame
\* gave no descriptors, matches is what an earlier iteration left while
\* curr_kp is the last frame's empty keypoint list: line 88 indexes it
R_AfterLoop ==
    /\ method = "ransac"
    /\ pc = "loop"
    /\ i + 1 = num_frames
    /\ IF matches = -1
       THEN /\ Raise(UnboundMatches)
            /\ UNCHANGED <<heap, shift, translation_matrix, outcome>>
       ELSE IF matches >= MinMatches /\ curr_des = "None"
       THEN /\ Raise(StaleMatches)
            /\ UNCHANGED <<heap, shift, translation_matrix, outcome>>
       ELSE IF matches >= MinMatches
       THEN \E matrix \in AffineFits :
              /\ pc' = "save" /\ exc' = exc
              /\ heap' = heap
              /\ IF matrix # <<>>
                 THEN /\ shift' = ClampShift(matrix)
                      /\ translation_matrix' = shift'
                      /\ outcome' = [outcome EXCEPT ![i + 1] = "ok"]
                 ELSE /\ outcome' = [outcome EXCEPT ![i + 1] = "insufficient"]
                      /\ UNCHANGED <<shift, translation_matrix>>
       ELSE /\ pc' = "save" /\ exc' = exc
            /\ heap' = WriteBack(heap, i, current_frame)
            /\ outcome' = [outcome EXCEPT ![i + 1] = "insufficient"]
            /\ UNCHANGED <<shift, translation_matrix>>
    /\ UNCHANGED <<method, axes, input, data, data_uint8, stabilized_data,
                   data_min, data_max, div_by_zero, t_index, num_frames, i,
                   ref_gray, p0, cumulative_shift, ref_des, matches,
                   current_frame, result, out_file, lk, curr_des, req, convVars, mergeVars>>

\* lines 139-143: the output volume is written to output_path
R_Save ==
    /\ method = "ransac"
    /\ pc = "save"
    /\ out_file' = heap[stabilized_data]
    /\ pc' = "saved"
    /\ UNCHANGED <<method, axes, input, heap, data, data_uint8, stabilized_data,
                   data_min, data_max, div_by_zero, t_index, num_frames, i,
                   ref_gray, p0, cumulative_shift, shift, translation_matrix,
                   ref_des, matches, current_frame, outcome, exc, result, lk, curr_des, req, convVars, mergeVars>>

Next ==
    \/ OF_LocateAxis
    \/ OF_Normalize
    \/ OF_Prepare
    \/ OF_Frame
    \/ OF_Return
    \/ OF_Save
    \/ R_Normalize
    \/ R_LocateAxis
    \/ R_Prepare
    \/ R_Frame
    \/ R_AfterLoop
    \/ R_Save

Spec == Init /\ [][Next]_vars

----------------------------------------------------------------------------
(* Properties of the stabilizers, checked under Spec *)

Abs(v) == IF v < 0 THEN -v ELSE v

HasTimeAxis == "T" \in Labels(Layout(axes))

\* how many time steps were tracked successfully so far
NumOk == Cardinality({n \in DOMAIN outcome : outcome[n] = "ok"})

C2_NoAbortOnInsufficientEvidence ==
    HasTimeAxis => (pc # "raised" /\ exc = "")

\* every time step of the volume is a copy of time step 0
ZeroMotion(a, t) ==
    \A n \in 0..(a.shape[t + 1] - 1) : TimeSlice(a, t, n) = TimeSlice(a, t, 0)

\* C3: a volume whose time steps are all copies of time step 0 is returned
\* element for element
C3_ZeroMotionIdentity ==
    (pc = "returned" /\ ZeroMotion(input, t_index)) => heap[result] = input

\* C4: the output slice of a time step with insufficient evidence equals the
\* input slice of that time step
C4_InsufficientFrameUntouched ==
    method = "optical_flow" =>
        \A n \in DOMAIN outcome :
            outcome[n] = "insufficient" =>
                TimeSlice(heap[stabilized_data], t_index, n - 1)
                    = TimeSlice(input, t_index, n - 1)

\* C5: the volume stabilize returns, and the volume written out, has the
\* shape and the dtype of the input volume
C5_ShapeAndDtypePreserved ==
    /\ result # 0 =>
          /\ heap[result].shape = input.shape
          /\ heap[result].dtype = input.dtype
          /\ DOMAIN heap[result].val = DOMAIN input.val
    /\ out_file # NoArray =>
          /\ out_file.shape = input.shape
          /\ out_file.dtype = input.dtype

\* a returned 16-bit volume with a Z axis whose run saw a tracked and an
\* untracked frame
C5_Witness ==
    /\ pc = "returned"
    /\ input.dtype = "uint16"
    /\ Len(input.shape) = 4
    /\ \E n \in DOMAIN outcome : outcome[n] = "ok"
    /\ \E n \in DOMAIN outcome : outcome[n] = "insufficient"

\* C6: normalizing a volume whose minimum equals its maximum divides by no
\* zero and gives an all-zero tracking volume
C6_ZeroRangeNormalization ==
    (data_uint8 # 0 /\ data_min = data_max) =>
        /\ ~div_by_zero
        /\ \A e \in Elements(heap[data_uint8]) : e = 0

\* C7: mapping an element to the tracking domain and back differs from the
\* element by at most one quantization step (max - min) / 255
C7_RoundTripWithinOneStep ==
    (data_uint8 # 0 /\ data_min < data_max) =>
        \A idx \in Indices(input.shape) :
            Abs(input.val[idx]
                - FromTracking(heap[data_uint8].val[idx], data_min, data_max))
                * Uint8Max <= data_max - data_min

NoTimeLabel == axes # AxesNone /\ "T" \notin Labels(axes)

\* C8: with axis labels that hold no 'T' both stabilizers end in the
\* missing-time-axis error; nothing is returned or written and the input
\* volume is as it was
C8_MissingTimeAxisFails ==
    NoTimeLabel =>
        /\ pc \in {"start", "locate", "raised"}
        /\ pc = "locate" => method = "ransac"
        /\ pc # "raised" => ENABLED Next
        /\ pc = "raised" => exc = MissingTimeAxis
        /\ result = 0
        /\ stabilized_data = 0
        /\ out_file = NoArray
        /\ heap[data] = input

\* the feature-match stabilizer has raised it, after its normalization
C8_Witness ==
    /\ NoTimeLabel
    /\ method = "ransac"
    /\ data_uint8 # 0
    /\ pc = "raised"
    /\ exc = MissingTimeAxis

\* C9: the input volume is never written and the volume returned is another,
\* newly allocated array
C9_InputNeverModified ==
    /\ heap[data] = input
    /\ stabilized_data # 0 => stabilized_data \notin {data, data_uint8}
    /\ result # 0 => result # data

\* a run has returned an output that differs from the input
C9_Witness ==
    /\ pc = "returned"
    /\ heap[result] # input
    /\ \E n \in DOMAIN outcome : outcome[n] = "ok"

----------------------------------------------------------------------------
(* The API: POST /convert-oir and POST /stabilize (src/api/main.py) *)

NumRequests == 2        \* bound: requests in flight

Requests == 1..NumRequests

Endpoints == {"convert-oir", "stabilize"}

\* the method query parameter; "median" stands for any other string
Methods == {"optical_flow", "ransac", "median"}

\* the upload: acceptable file names, a wrong suffix, or (convert) no file
Uploads == {"ok", "bad_suffix", "none"}

InvalidMethod == "Invalid stabilization method"

NoRequest ==
    [endpoint |-> "", method |-> "", stabilize |-> FALSE, upload |-> "",
     pc |-> "absent", status |-> 0, detail |-> "", dispatched |-> FALSE,
     ran |-> "none", session_dirs |-> FALSE, cleanup_task |-> "none",
     out_path |-> "none", sent |-> "nothing"]

StabIdle ==
    /\ method = ""
    /\ axes = <<>>
    /\ input = NoArray
    /\ heap = [o \in ObjIds |-> NoArray]
    /\ data = 0
    /\ data_uint8 = 0
    /\ stabilized_data = 0
    /\ data_min = 0
    /\ data_max = 0
    /\ div_by_zero = FALSE
    /\ t_index = -1
    /\ num_frames = 0
    /\ i = -1
    /\ ref_gray = NoArray
    /\ p0 = "None"
    /\ cumulative_shift = <<0, 0>>
    /\ shift = <<0, 0>>
    /\ translation_matrix = <<>>
    /\ ref_des = "None"
    /\ matches = -1
    /\ current_frame = NoArray
    /\ outcome = <<>>
    /\ pc = "idle"
    /\ exc = ""
    /\ result = 0
    /\ out_file = NoArray
    /\ lk = <<>>
    /\ curr_des = "None"

InitApi ==
    /\ StabIdle
    /\ ConvIdle
    /\ MergeIdle
    /\ req = [r \in Requests |-> NoRequest]

Set(r, fields) == req' = [req EXCEPT ![r] = fields]

\* a client posts a request
Arrive(r) ==
    /\ req[r].pc = "absent"
    /\ \E e \in Endpoints, m \in Methods, st \in BOOLEAN, up \in Uploads :
         /\ e = "stabilize" => (~st /\ up # "none")
         /\ Set(r, [NoRequest EXCEPT !.endpoint = e, !.method = m,
                                     !.stabilize = st, !.upload = up,
                                     !.pc = "received"])
    /\ UNCHANGED <<stabVars, convVars, mergeVars>>

\* raise HTTPException(status_code, detail) reaching the client
HttpError(q, code, detail) ==
    [q EXCEPT !.status = code, !.detail = detail, !.pc = "responded"]

\* a handler whose finally clause schedules no cleanup
ConvertExcept_NoFinally(q, code, detail) == HttpError(q, 500, detail)

\* convert_oir_files, lines 200-204: any exception raised inside the try,
\* an HTTPException included, is re-raised as HTTPException(500, str(e));
\* the finally clause schedules the directory cleanup
ConvertExcept(q, code, detail) ==
    [HttpError(q, 500, detail) EXCEPT !.cleanup_task = "scheduled"]

\* how a stabilizer run ends: its file written, or an exception
RunEnds == {"written", "raised"}

\* lines 140-162 and 245-253: the stabilizer the method selects
Dispatch(m) ==
    IF m = "optical_flow" THEN "optical_flow"
    ELSE IF m = "ransac" THEN "ransac"
    ELSE "none"

\* convert_oir_files, lines 46-54: no file is a 400 before any directory
\* exists; otherwise the session directories are made
C_Begin(r) ==
    /\ req[r].pc = "received"
    /\ req[r].endpoint = "convert-oir"
    /\ IF req[r].upload = "none"
       THEN Set(r, HttpError(req[r], 400, "No files provided"))
       ELSE Set(r, [req[r] EXCEPT !.session_dirs = TRUE, !.pc = "saving"])
    /\ UNCHANGED <<stabVars, convVars, mergeVars>>

\* lines 56-78: the uploads are saved, then the conversion is started on the
\* thread pool
C_SaveUploads(r) ==
    /\ req[r].pc = "saving"
    /\ IF req[r].upload = "bad_suffix"
       THEN Set(r, ConvertExcept(req[r], 400, "Invalid file format"))
       ELSE Set(r, [req[r] EXCEPT !.pc = "converting"])
    /\ UNCHANGED <<stabVars, convVars, mergeVars>>

\* lines 75-101 and 183-191: the conversion ends; the handler goes on to read
\* the converted files or to zip them
C_Converted(r) ==
    /\ req[r].pc = "converting"
    /\ \E conv \in {"ok", "raised"} :
         IF conv = "raised"
         THEN Set(r, ConvertExcept(req[r], 500, "conversion failed"))
         ELSE Set(r, [req[r] EXCEPT !.pc =
                         IF req[r].stabilize THEN "reading" ELSE "zipping"])
    /\ UNCHANGED <<stabVars, convVars, mergeVars>>

\* lines 193-198: the zip is returned
C_Zipped(r) ==
    /\ req[r].pc = "zipping"
    /\ Set(r, [req[r] EXCEPT !.status = 200, !.pc = "responded",
                             !.out_path = "zip", !.cleanup_task = "scheduled"])
    /\ UNCHANGED <<stabVars, convVars, mergeVars>>

\* what the merge validation of lines 103-125 finds
MergeVerdicts == {"ok", "Not all images have the same axes labels",
                  "Axes labels do not contain 'T' axis",
                  "Not all images have the same shape except for T dimension"}

\* lines 103-181: validate, merge, stabilize with the selected stabilizer,
\* copy the result and return it
C_MergeAndStabilize(r) ==
    /\ req[r].pc = "reading"
    /\ \E verdict \in MergeVerdicts, run \in RunEnds :
         IF verdict # "ok"
         THEN Set(r, ConvertExcept(req[r], 400, verdict))
         ELSE LET q == [req[r] EXCEPT !.dispatched = TRUE,
                                      !.ran = Dispatch(req[r].method)]
              IN IF q.ran = "none"
                 THEN Set(r, ConvertExcept(q, 400, InvalidMethod))
                 ELSE IF run = "raised"
                 THEN Set(r, ConvertExcept(q, 500, "stabilization failed"))
                 ELSE Set(r, [q EXCEPT !.status = 200, !.pc = "responded",
                                       !.out_path = "copy",
                                       !.cleanup_task = "scheduled"])
    /\ UNCHANGED <<stabVars, convVars, mergeVars>>

\* cleanup_directories, lines 207-216: the scheduled task removes the
\* session directories
CleanupDirectories(r) ==
    /\ req[r].cleanup_task = "scheduled"
    /\ Set(r, [req[r] EXCEPT !.session_dirs = FALSE, !.cleanup_task = "done"])
    /\ UNCHANGED <<stabVars, convVars, mergeVars>>

\* stabilize_image, lines 225-266: the whole handler runs without an await;
\* its finally clause removes the session directories before it returns
S_Handle(r) ==
    /\ req[r].pc = "received"
    /\ req[r].endpoint = "stabilize"
    /\ \E run \in RunEnds :
         IF req[r].upload = "bad_suffix"
         THEN Set(r, HttpError(req[r], 400,
                       "Invalid file format. Only TIFF files are accepted"))
         ELSE LET q == [req[r] EXCEPT !.dispatched = TRUE,
                                      !.ran = Dispatch(req[r].method)]
              IN IF q.ran = "none"
                 THEN Set(r, HttpError(q, 400, InvalidMethod))
                 ELSE IF run = "raised"
                 THEN Set(r, HttpError(q, 500, "Internal Server Error"))
                 ELSE Set(r, [q EXCEPT !.status = 200, !.pc = "responded",
                                       !.out_path = "session_output"])
    /\ UNCHANGED <<stabVars, convVars, mergeVars>>

\* the server sends the response: a FileResponse reads its file now
SendResponse(r) ==
    /\ req[r].pc = "responded"
    /\ Set(r, [req[r] EXCEPT !.pc = "sent",
                 !.sent = IF req[r].status # 200 THEN "error"
                          ELSE IF req[r].out_path = "session_output"
                                  /\ ~req[r].session_dirs
                          THEN "file missing"
                          ELSE "file"])
    /\ UNCHANGED <<stabVars, convVars, mergeVars>>

NextApi ==
    \E r \in Requests :
        \/ Arrive(r)
        \/ C_Begin(r)
        \/ C_SaveUploads(r)
        \/ C_Converted(r)
        \/ C_Zipped(r)
        \/ C_MergeAndStabilize(r)
        \/ CleanupDirectories(r)
        \/ S_Handle(r)
        \/ SendResponse(r)

SpecApi == InitApi /\ [][NextApi]_vars

\* C10: once the handler has reached the method dispatch, 'optical_flow' has
\* run the optical-flow stabilizer, 'ransac' the feature-match stabilizer,
\* and any other method has run none and is answered 400 'Invalid
\* stabilization method', on both endpoints
C10_MethodSelectsStrategy ==
    \A r \in Requests :
        req[r].dispatched =>
            /\ req[r].method = "optical_flow" => req[r].ran = "optical_flow"
            /\ req[r].method = "ransac" => req[r].ran = "ransac"
            /\ req[r].method \notin {"optical_flow", "ransac"} =>
                  /\ req[r].ran = "none"
                  /\ req[r].status = 400
                  /\ req[r].detail = InvalidMethod

----------------------------------------------------------------------------
(* OIRConverter (src/conversion/oir_to_tiff.py): threads construct the     *)
(* singleton and call convert(input_paths, output_dir)                      *)

NumThreads == 2         \* bound: threads using the converter
MaxFiles == 2           \* bound: input paths of one convert call

Threads == 1..NumThreads

\* the input paths a caller may pass; a file name is the sequence of its
\* dot-separated parts, and two directories hold an a.oir
Paths == {[dir |-> "in1", name |-> <<"a", "oir">>],
          [dir |-> "in2", name |-> <<"a", "oir">>],
          [dir |-> "in1", name |-> <<"b", "v2", "oir">>]}

InputPathLists == UNION {[1..n -> Paths] : n \in 0..MaxFiles}

\* pathlib's stem: the name without its last suffix
Stem(name) == IF Len(name) > 1 THEN SubSeq(name, 1, Len(name) - 1) ELSE name

\* pathlib's with_suffix: the last suffix replaced
WithSuffix(name, suffix) == Stem(name) \o suffix

\* line 104: Path(output_dir) / f"{input_filename}.ome.tiff"
OutputName(input_path) == Stem(input_path.name) \o <<"ome", "tiff">>

\* line 105: output_path.with_suffix('.metadata.txt')
MetadataName(input_path) ==
    WithSuffix(OutputName(input_path), <<"metadata", "txt">>)

VMStartFailed == "RuntimeError: Failed to initialize Java VM"
ReadFailed == "loci.formats.FormatException"
EnvIsNone == "RuntimeError: Java VM environment is None before conversion"

NoThread ==
    [pc |-> "new", caller |-> "", input_paths |-> <<>>, k |-> 0,
     attached |-> FALSE, exc |-> ""]

InitConv ==
    /\ StabIdle
    /\ req = ApiIdle
    /\ _vm_initialized = FALSE
    /\ _lock = 0
    /\ vm_starts = 0
    /\ thr = [t \in Threads |-> NoThread]
    /\ output_dir = [t \in Threads |-> {}]
    /\ vm = "none"
    /\ kills = {}
    /\ sd = "idle"
    /\ MergeIdle

SetThr(t, fields) == thr' = [thr EXCEPT ![t] = fields]

\* where ensure_vm_running returns to
AfterEnsure(q) ==
    [q EXCEPT !.pc = IF q.caller = "init" THEN "constructed" ELSE "attach"]

\* lines 19-30: OIRConverter() returns the one instance; __init__ runs
\* ensure_vm_running
New(t) ==
    /\ thr[t].pc = "new"
    /\ SetThr(t, [thr[t] EXCEPT !.pc = "e_check", !.caller = "init"])
    /\ UNCHANGED <<stabVars, req, mergeVars, vm, kills, sd,
                   _vm_initialized, _lock, vm_starts, output_dir>>

\* line 37: the unlocked test of the flag
E_Check(t) ==
    /\ thr[t].pc = "e_check"
    /\ IF _vm_initialized
       THEN SetThr(t, AfterEnsure(thr[t]))
       ELSE SetThr(t, [thr[t] EXCEPT !.pc = "e_lock"])
    /\ UNCHANGED <<stabVars, req, mergeVars, vm, kills, sd,
                   _vm_initialized, _lock, vm_starts, output_dir>>

\* line 38: with self._lock
E_Acquire(t) ==
    /\ thr[t].pc = "e_lock"
    /\ _lock = 0
    /\ _lock' = t
    /\ SetThr(t, [thr[t] EXCEPT !.pc = "e_locked"])
    /\ UNCHANGED <<stabVars, req, mergeVars, vm, kills, sd,
                   _vm_initialized, vm_starts, output_dir>>

\* how lines 42-61 end: start_vm raised, the VM started and a check of lines
\* 47-59 failed, or the VM started and the checks passed
StartOutcomes == {"start_raised", "check_failed", "passed"}

\* lines 42-67, run by whoever holds the lock, whatever the flag says.  A VM
\* that was killed cannot be started again (javabridge.kill_vm)
StartVM(t) ==
    /\ vm_starts' = vm_starts + 1
    /\ \E o \in StartOutcomes :
         /\ vm = "dead" => o = "start_raised"
         /\ vm' = IF o = "start_raised" THEN vm ELSE "running"
         /\ IF o = "passed"
            THEN /\ _vm_initialized' = TRUE
                 /\ SetThr(t, AfterEnsure([thr[t] EXCEPT !.attached = TRUE]))
            ELSE /\ _vm_initialized' = FALSE
                 /\ SetThr(t, [thr[t] EXCEPT !.pc = "raised",
                                             !.exc = VMStartFailed])

\* an initialization that does not test the flag again under the lock
E_Start_NoSecondCheck(t) ==
    /\ thr[t].pc = "e_locked"
    /\ _lock' = 0
    /\ StartVM(t)
    /\ UNCHANGED <<stabVars, req, mergeVars, kills, sd, output_dir>>

\* lines 40-70: the second test under the lock, start_vm and its checks; the
\* with statement releases the lock on return and on the RuntimeError
E_Start(t) ==
    /\ thr[t].pc = "e_locked"
    /\ _lock' = 0
    /\ IF _vm_initialized
       THEN /\ SetThr(t, AfterEnsure(thr[t]))
            /\ UNCHANGED <<_vm_initialized, vm_starts, vm>>
       ELSE StartVM(t)
    /\ UNCHANGED <<stabVars, req, mergeVars, kills, sd, output_dir>>

\* lines 90-93: convert(input_paths, output_dir) begins with
\* ensure_vm_running
ConvertCall(t) ==
    /\ thr[t].pc = "constructed"
    /\ \E paths \in InputPathLists :
         SetThr(t, [thr[t] EXCEPT !.pc = "e_check", !.caller = "convert",
                                  !.input_paths = paths, !.k = 0])
    /\ UNCHANGED <<stabVars, req, mergeVars, vm, kills, sd,
                   _vm_initialized, _lock, vm_starts, output_dir>>

\* line 96: _attach_thread
Attach(t) ==
    /\ thr[t].pc = "attach"
    /\ SetThr(t, [thr[t] EXCEPT !.pc = "file", !.attached = TRUE])
    /\ UNCHANGED <<stabVars, req, mergeVars, vm, kills, sd,
                   _vm_initialized, _lock, vm_starts, output_dir>>

\* lines 98-125: the next input path; its output name is derived, the
\* metadata store and the reader are made; without a VM to attach to, lines
\* 112-120 raise
F_Begin(t) ==
    /\ thr[t].pc = "file"
    /\ thr[t].k < Len(thr[t].input_paths)
    /\ IF vm = "dead"
       THEN SetThr(t, [thr[t] EXCEPT !.pc = "raised", !.exc = EnvIsNone])
       ELSE SetThr(t, [thr[t] EXCEPT !.pc = "f_lock"])
    /\ UNCHANGED <<stabVars, req, mergeVars, vm, kills, sd,
                   _vm_initialized, _lock, vm_starts, output_dir>>

\* line 127: with self._lock
F_Acquire(t) ==
    /\ thr[t].pc = "f_lock"
    /\ _lock = 0
    /\ _lock' = t
    /\ SetThr(t, [thr[t] EXCEPT !.pc = "f_locked"])
    /\ UNCHANGED <<stabVars, req, mergeVars, vm, kills, sd,
                   _vm_initialized, vm_starts, output_dir>>

\* what the reader and the writer may do with one file: the reader rejects
\* it, a plane fails after the writer opened the output, or all is written
FileOutcomes == {"unreadable", "plane_failed", "written"}

\* lines 128-169: the locked read/write section; an exception is logged and
\* re-raised, the lock is released either way.  Nothing writes metadata_path
F_Convert(t) ==
    /\ thr[t].pc = "f_locked"
    /\ _lock' = 0
    /\ LET input_path == thr[t].input_paths[thr[t].k + 1]
       IN \E o \in FileOutcomes :
            /\ output_dir' =
                 IF o = "unreadable" THEN output_dir
                 ELSE [output_dir EXCEPT ![t] = @ \cup {OutputName(input_path)}]
            /\ IF o = "written"
               THEN SetThr(t, [thr[t] EXCEPT !.pc = "file", !.k = @ + 1])
               ELSE SetThr(t, [thr[t] EXCEPT !.pc = "raised", !.exc = ReadFailed])
    /\ UNCHANGED <<stabVars, req, mergeVars, vm, kills, sd,
                   _vm_initialized, vm_starts>>

\* the for loop is exhausted: convert returns None
ConvertReturn(t) ==
    /\ thr[t].pc = "file"
    /\ thr[t].k = Len(thr[t].input_paths)
    /\ SetThr(t, [thr[t] EXCEPT !.pc = "done"])
    /\ UNCHANGED <<stabVars, req, mergeVars, vm, kills, sd,
                   _vm_initialized, _lock, vm_starts, output_dir>>

\* what kill_vm is executed against: who called it, who held the lock, and
\* which threads were inside the locked read/write section of convert
Kill(by, caller) ==
    [by |-> by, caller |-> caller, lock |-> _lock,
     section |-> {u \in Threads : thr[u].pc = "f_locked"}]

\* kill_vm returns, or raises and is logged
KillOutcomes == {"killed", "raised"}

\* cleanup, line 174: the unlocked test of the flag, by a thread that holds
\* the instance
K_Check(t) ==
    /\ thr[t].pc \in {"constructed", "done"}
    /\ IF _vm_initialized
       THEN SetThr(t, [thr[t] EXCEPT !.pc = "k_lock"])
       ELSE SetThr(t, [thr[t] EXCEPT !.pc = "cleaned"])
    /\ UNCHANGED <<stabVars, req, mergeVars, vm, kills, sd,
                   _vm_initialized, _lock, vm_starts, output_dir>>

\* cleanup, line 175: with self._lock
K_Acquire(t) ==
    /\ thr[t].pc = "k_lock"
    /\ _lock = 0
    /\ _lock' = t
    /\ SetThr(t, [thr[t] EXCEPT !.pc = "k_locked"])
    /\ UNCHANGED <<stabVars, req, mergeVars, vm, kills, sd,
                   _vm_initialized, vm_starts, output_dir>>

\* cleanup, lines 177-192: the second test, detach, kill_vm and the flag, all
\* under the lock, which the with statement then releases
K_Kill(t) ==
    /\ thr[t].pc = "k_locked"
    /\ _lock' = 0
    /\ \E o \in KillOutcomes :
         IF _vm_initialized /\ o = "killed"
         THEN /\ vm' = "dead"
              /\ kills' = kills \cup {Kill("cleanup", t)}
              /\ _vm_initialized' = FALSE
              /\ SetThr(t, [thr[t] EXCEPT !.pc = "cleaned", !.attached = FALSE])
         ELSE /\ SetThr(t, [thr[t] EXCEPT !.pc = "cleaned",
                               !.attached = @ /\ ~_vm_initialized])
              /\ UNCHANGED <<vm, kills, _vm_initialized>>
    /\ UNCHANGED <<stabVars, req, mergeVars, sd, vm_starts, output_dir>>

\* shutdown_event, api/main.py line 286: the test of the flag; no lock is
\* taken anywhere in the handler
SD_Check ==
    /\ sd = "idle"
    /\ sd' = IF _vm_initialized THEN "kill" ELSE "done"
    /\ UNCHANGED <<stabVars, req, mergeVars, vm, kills, thr,
                   _vm_initialized, _lock, vm_starts, output_dir>>

\* shutdown_event, line 288: kill_vm
SD_Kill ==
    /\ sd = "kill"
    /\ \E o \in KillOutcomes :
         IF o = "killed"
         THEN /\ vm' = "dead"
              /\ kills' = kills \cup {Kill("shutdown", 0)}
              /\ sd' = "reset"
         ELSE /\ sd' = "done"
              /\ UNCHANGED <<vm, kills>>
    /\ UNCHANGED <<stabVars, req, mergeVars, thr,
                   _vm_initialized, _lock, vm_starts, output_dir>>

\* shutdown_event, line 289: the flag is cleared
SD_Reset ==
    /\ sd = "reset"
    /\ sd' = "done"
    /\ _vm_initialized' = FALSE
    /\ UNCHANGED <<stabVars, req, mergeVars, vm, kills, thr,
                   _lock, vm_starts, output_dir>>

NextConv ==
    \/ \E t \in Threads :
        \/ New(t)
        \/ E_Check(t)
        \/ E_Acquire(t)
        \/ E_Start(t)
        \/ ConvertCall(t)
        \/ Attach(t)
        \/ F_Begin(t)
        \/ F_Acquire(t)
        \/ F_Convert(t)
        \/ ConvertReturn(t)
        \/ K_Check(t)
        \/ K_Acquire(t)
        \/ K_Kill(t)
    \/ SD_Check
    \/ SD_Kill
    \/ SD_Reset

SpecConv == InitConv /\ [][NextConv]_vars

\* C11: when convert has returned without an error, its output_dir holds,
\* for every input path, the converted volume <stem>.ome.tiff and the
\* metadata sidecar of that input
C11_VolumeAndSidecarPerInput ==
    \A t \in Threads :
        thr[t].pc = "done" =>
            \A n \in 1..Len(thr[t].input_paths) :
                /\ OutputName(thr[t].input_paths[n]) \in output_dir[t]
                /\ MetadataName(thr[t].input_paths[n]) \in output_dir[t]

----------------------------------------------------------------------------
(* Properties of the frame loops, checked under Spec *)

\* C12: the optical-flow loop leaves time index 0 alone: it is never
\* estimated or rewritten, and the output slice at time index 0 equals the
\* input slice at time index 0
C12_TimeIndexZeroCopiedThrough ==
    (method = "optical_flow" /\ stabilized_data # 0) =>
        /\ outcome[1] = "pending"
        /\ TimeSlice(heap[stabilized_data], t_index, 0)
              = TimeSlice(input, t_index, 0)

\* C13: what is written back comes from the native-range input volume: every
\* element of the output is an element of the input (or the warp's border 0),
\* and the slice of a tracked time step is the warped native-range frame
C13_NativeFrameWarped ==
    (method = "optical_flow" /\ stabilized_data # 0) =>
        /\ Elements(heap[stabilized_data]) \subseteq Elements(input) \cup {0}
        /\ (i >= 0 /\ outcome[i + 1] = "ok") =>
              _get_frame(heap[stabilized_data], t_index, i)
                 = WarpAffine(_get_frame(input, t_index, i),
                              translation_matrix[1], translation_matrix[2])

\* C14: a time step of the optical-flow loop on which at least 10 points were
\* tracked makes the current frame the reference, re-detects the features on
\* it and moves the cumulative shift by the step; a time step with fewer
\* leaves the reference, the feature set and the cumulative shift as they
\* were
C14_RunStateChangesIffTracked ==
    [][(method = "optical_flow" /\ Len(lk') = Len(lk) + 1) =>
          IF lk'[Len(lk')].st_sum >= MinTracked
          THEN /\ outcome'[i' + 1] = "ok"
               /\ ref_gray' = _get_frame(heap[data_uint8], t_index, i')
               /\ p0' \in GoodFeatures(ref_gray')
               /\ cumulative_shift' =
                     <<cumulative_shift[1] + shift'[1],
                       cumulative_shift[2] + shift'[2]>>
          ELSE /\ outcome'[i' + 1] = "insufficient"
               /\ ref_gray' = ref_gray
               /\ p0' = p0
               /\ cumulative_shift' = cumulative_shift]_vars

\* an untracked step came after a tracked one that had moved the shift and
\* replaced the reference
C14_Witness ==
    /\ method = "optical_flow"
    /\ Len(lk) >= 2
    /\ lk[Len(lk)].st_sum < MinTracked
    /\ lk[Len(lk) - 1].st_sum >= MinTracked
    /\ cumulative_shift # <<0, 0>>
    /\ ref_gray = _get_frame(heap[data_uint8], t_index, Len(lk) - 2)
    /\ ref_gray # _get_frame(heap[data_uint8], t_index, 0)

\* the sum of the clamped median displacements of the tracked steps of s
RECURSIVE SumOfClampedSteps(_)
SumOfClampedSteps(s) ==
    IF s = <<>> THEN <<0, 0>>
    ELSE LET rest == SumOfClampedSteps(SubSeq(s, 1, Len(s) - 1))
             last == s[Len(s)]
         IN IF last.st_sum >= MinTracked
            THEN <<rest[1] + Clip(last.median[1], -max_shift, max_shift),
                   rest[2] + Clip(last.median[2], -max_shift, max_shift)>>
            ELSE rest

\* C15: after any prefix of time steps the cumulative shift is the sum, over
\* the tracked steps, of the median displacement clamped per axis to
\* [-20, 20], and the translation that warped a tracked frame is the
\* negation of that cumulative shift
C15_CumulativeShiftIsSumOfClampedSteps ==
    method = "optical_flow" =>
        /\ cumulative_shift = SumOfClampedSteps(lk)
        /\ (lk # <<>> /\ lk[Len(lk)].st_sum >= MinTracked) =>
              translation_matrix = <<-cumulative_shift[1], -cumulative_shift[2]>>

\* an untracked step, then two tracked steps whose medians were clamped
C15_Witness ==
    /\ method = "optical_flow"
    /\ Len(lk) = 3
    /\ lk[1].st_sum < MinTracked
    /\ lk[2].st_sum >= MinTracked /\ Abs(lk[2].median[1]) > max_shift
    /\ lk[3].st_sum >= MinTracked /\ Abs(lk[3].median[2]) > max_shift
    /\ Abs(cumulative_shift[1]) = 2 * max_shift
    /\ translation_matrix = <<-cumulative_shift[1], -cumulative_shift[2]>>

\* the tracking frame of time index n (0-based), as both loops read it
TrackingFrame(n) == _get_frame(heap[data_uint8], t_index, n)

\* a 2-D tracking frame scaled back to the volume's range and dtype
ScaledBack(frame) == Denormalize(frame, data_min, data_max, input.dtype)

\* C16: in a feature-match run that has ended, every time step was estimated
\* on its own; the shift is the step's clamped translation, not a sum; a step
\* with a fit has its warped frame in its slice of the output, a step with
\* fewer than 3 matches its uncorrected frame
C16_EveryFrameEstimatedOnItsOwn ==
    (method = "ransac" /\ pc \in {"save", "saved"}) =>
        /\ \A n \in 1..num_frames : outcome[n] \in {"ok", "insufficient"}
        /\ translation_matrix # <<>> => translation_matrix = shift
        /\ outcome[num_frames] = "ok" =>
              _get_frame(heap[stabilized_data], t_index, num_frames - 1)
                 = ScaledBack(WarpAffine(TrackingFrame(num_frames - 1),
                                         shift[1], shift[2]))
        /\ matches < MinMatches =>
              _get_frame(heap[stabilized_data], t_index, num_frames - 1)
                 = ScaledBack(TrackingFrame(num_frames - 1))

C18_ReferenceNeverReplaced ==
    /\ [](method = "ransac" /\ pc \in {"loop", "save", "saved"} =>
             /\ ref_gray = _get_frame(heap[data_uint8], t_index, 0)
             /\ ref_des \in DetectAndCompute(ref_gray))
    /\ [][(method = "ransac" /\ pc = "loop") =>
             (ref_gray' = ref_gray /\ ref_des' = ref_des)]_vars

\* a later frame that differs from frame 0 has been matched against the
\* descriptors of frame 0
C18_Witness ==
    /\ method = "ransac"
    /\ pc = "loop"
    /\ i >= 1
    /\ current_frame # ref_gray
    /\ curr_des = "des"
    /\ matches >= MinMatches
    /\ ref_gray = _get_frame(heap[data_uint8], t_index, 0)

----------------------------------------------------------------------------
(* _get_frame and _set_frame on their own: a volume of any layout is read   *)
(* and written one time step at a time                                      *)

FrameH == 2             \* bound: height of a frame (Y) in these volumes

\* axis strings: 'T' in every position, Z and C planes, a rank-2 volume
\* (a line scanned over time) and a channel-last volume
FrameAxes == {<<"T", "Y", "X">>, <<"Y", "T", "X">>, <<"Y", "X", "T">>,
              <<"T", "Z", "Y", "X">>, <<"Z", "T", "Y", "X">>,
              <<"T", "Z", "C", "Y", "X">>, <<"Z", "C", "T", "Y", "X">>,
              <<"T", "X">>, <<"T", "Y", "X", "C">>}

\* the length of the dimension a label names
DimOf(label) ==
    CASE label = "T" -> MaxFrames - 1
      [] label = "Z" -> Depth
      [] label = "C" -> Depth
      [] label = "Y" -> FrameH
      [] OTHER -> FrameW

ShapeOf(ax) == [k \in 1..Len(ax) |-> DimOf(ax[k])]

RECURSIVE Weigh(_, _)
Weigh(idx, w) ==
    IF idx = <<>> THEN 0 ELSE w * Head(idx) + Weigh(Tail(idx), w + 1)

Seeds == 1..2

\* a volume whose elements differ along every dimension
AnyVolume(ax, seed) ==
    [dtype |-> "uint8",
     shape |-> ShapeOf(ax),
     val   |-> [idx \in Indices(ShapeOf(ax)) |->
                   (Weigh(idx, seed) + seed) % (MaxPixel + 1)]]

\* the frames a caller writes: of the shape _get_frame returns for this
\* volume (the last two dimensions of a time slice, or its only one)
FramesFor(a, t) ==
    LET slice == RemoveAt(a.shape, t + 1)
        shape == IF Len(slice) > 2 THEN Trailing(slice, 2) ELSE slice
    IN {[dtype |-> a.dtype,
         shape |-> shape,
         val   |-> [idx \in Indices(shape) |->
                       (Weigh(idx, 1) * seed) % (MaxPixel + 1)]] : seed \in Seeds}

InitFrames ==
    /\ method = "frames"
    /\ axes \in FrameAxes
    /\ \E seed \in Seeds : input = AnyVolume(axes, seed)
    /\ heap = [o \in ObjIds |-> IF o = 1 THEN input ELSE NoArray]
    /\ data = 1
    /\ data_uint8 = 0
    /\ stabilized_data = 0
    /\ data_min = 0
    /\ data_max = 0
    /\ div_by_zero = FALSE
    /\ t_index = Find(axes, "T")
    /\ num_frames = ShapeOf(axes)[PosOf(axes, "T")]
    /\ i = -1
    /\ ref_gray = NoArray
    /\ p0 = "None"
    /\ cumulative_shift = <<0, 0>>
    /\ shift = <<0, 0>>
    /\ translation_matrix = <<>>
    /\ ref_des = "None"
    /\ matches = -1
    /\ current_frame = NoArray
    /\ outcome = <<>>
    /\ pc = "frames"
    /\ exc = ""
    /\ result = 0
    /\ out_file = NoArray
    /\ lk = <<>>
    /\ curr_des = "None"
    /\ req = ApiIdle
    /\ ConvIdle
    /\ MergeIdle

\* _get_frame(data, t_index, frame_number), lines 180-187
GetFrame ==
    /\ method = "frames"
    /\ \E frame_number \in 0..(num_frames - 1) :
         /\ i' = frame_number
         /\ current_frame' = _get_frame(heap[data], t_index, frame_number)
    /\ pc' = "got"
    /\ UNCHANGED <<method, axes, input, heap, data, data_uint8, stabilized_data,
                   data_min, data_max, div_by_zero, t_index, num_frames,
                   ref_gray, p0, cumulative_shift, shift, translation_matrix,
                   ref_des, matches, outcome, exc, result, out_file, lk,
                   curr_des, req, convVars, mergeVars>>

\* _set_frame(data, t_index, frame_number, frame_data), lines 198-201
SetFrame ==
    /\ method = "frames"
    /\ \E frame_number \in 0..(num_frames - 1) :
       \E frame_data \in FramesFor(heap[data], t_index) :
         /\ i' = frame_number
         /\ current_frame' = frame_data
         /\ heap' = Store(heap, data,
                          _set_frame(heap[data], t_index, frame_number, frame_data))
    /\ pc' = "set"
    /\ UNCHANGED <<method, axes, input, data, data_uint8, stabilized_data,
                   data_min, data_max, div_by_zero, t_index, num_frames,
                   ref_gray, p0, cumulative_shift, shift, translation_matrix,
                   ref_des, matches, outcome, exc, result, out_file, lk,
                   curr_des, req, convVars, mergeVars>>

NextFrames == GetFrame \/ SetFrame

SpecFrames == InitFrames /\ [][NextFrames]_vars

\* the elements of time step n of v that a collapse brings to position ab of
\* the slice's last two dimensions (tpos: where 'T' stands, 1-based)
CollapsedAt(v, tpos, n, ab) ==
    {v.val[j] : j \in {k \in Indices(v.shape) :
                          /\ k[tpos] = n + 1
                          /\ Trailing(RemoveAt(k, tpos), 2) = ab}}

C20_WriteFrameOnlyItsTimeSlice ==
    [][(method = "frames" /\ pc' = "set") =>
          LET tpos == PosOf(axes, "T")
              before == heap[data]
              after == heap'[data]
              frame == current_frame'
          IN /\ after.shape = before.shape
             /\ after.dtype = before.dtype
             /\ DOMAIN after.val = DOMAIN before.val
             /\ \A idx \in Indices(before.shape) :
                   IF idx[tpos] = i' + 1
                   THEN after.val[idx] =
                           frame.val[Trailing(RemoveAt(idx, tpos), Len(frame.shape))]
                   ELSE after.val[idx] = before.val[idx]]_vars

\* a frame was written into the second time step of a rank-5 volume whose
\* planes differed there, and the first time step is as it was
C20_Witness ==
    /\ method = "frames"
    /\ pc = "set"
    /\ axes = <<"Z", "C", "T", "Y", "X">>
    /\ i = 1
    /\ \E ab \in Indices(current_frame.shape) :
          Cardinality(CollapsedAt(input, 3, 1, ab)) > 1
    /\ \A ab \in Indices(current_frame.shape) :
          CollapsedAt(heap[data], 3, 1, ab) = {current_frame.val[ab]}
    /\ TimeSlice(heap[data], 2, 0) = TimeSlice(input, 2, 0)
    /\ TimeSlice(heap[data], 2, 1) # TimeSlice(input, 2, 1)

----------------------------------------------------------------------------
(* Merging the converted acquisitions along 'T': convert_oir_files lines   *)
(* 82-169 (src/api/main.py) and main lines 40-93 (src/main.py)              *)

\* the axis strings and shapes a converted file may have
MergeAxes == {<<"T", "Y", "X">>, <<"Z", "T", "Y", "X">>, <<"Z", "Y", "X">>}

MergeShapes(ax) ==
    {[k \in 1..Len(ax) |->
         CASE ax[k] = "T" -> T
           [] ax[k] = "Z" -> Depth
           [] ax[k] = "Y" -> 1
           [] OTHER -> W] : T \in 1..(MaxFrames - 1), W \in {FrameW - 1, FrameW}}

Contents == UNION {{[axes |-> ax, shape |-> sh] : sh \in MergeShapes(ax)} :
                      ax \in MergeAxes}

\* file names, by their place in the sorted order of the paths
TiffNames == 1..(MaxFiles + 1)

AxesDiffer == "Not all images have the same axes labels"
NoTAxis == "Axes labels do not contain 'T' axis"
ShapesDiffer == "Not all images have the same shape except for T dimension"
WrongArguments == "TypeError: __init__() takes from 1 to 2 positional arguments"

InitMerge ==
    /\ StabIdle
    /\ req = ApiIdle
    /\ ConvIdle
    /\ program \in {"api", "cli"}
    /\ \E N \in SUBSET TiffNames :
         /\ Cardinality(N) \in 1..MaxFiles
         /\ \E c \in [N -> Contents] :
              tiff_files = {[name |-> n, axes |-> c[n].axes, shape |-> c[n].shape] :
                               n \in N}
    /\ images = <<>>
    /\ merge_pc = "read"
    /\ merge_exc = ""
    /\ merged_file = NoFile
    /\ stabilized_file = "none"

\* sorted(tiff_files): the files by ascending path
Sorted(files) ==
    CHOOSE seq \in [1..Cardinality(files) -> files] :
        \A a, b \in 1..Cardinality(files) : a < b => seq[a].name < seq[b].name

\* a comparison of the whole shapes, the 'T' dimension included
WithoutT_Whole(shape, t) == shape

\* [s for idx, s in enumerate(shape) if idx != t_index]
WithoutT(shape, t) == RemoveAt(shape, t + 1)

\* lines 103-125 (main.py 55-75): the checks, in the order they are made
Validate(imgs) ==
    LET base_axes == imgs[1].axes
        t == Find(base_axes, "T")
    IN IF \E k \in 2..Len(imgs) : imgs[k].axes # base_axes THEN AxesDiffer
       ELSE IF t = -1 THEN NoTAxis
       ELSE IF \E k \in 2..Len(imgs) :
                  WithoutT(imgs[1].shape, t) # WithoutT(imgs[k].shape, t)
       THEN ShapesDiffer
       ELSE "ok"

RECURSIVE TimeOrder(_, _)
\* which file each time step of the concatenation comes from
TimeOrder(imgs, t) ==
    IF imgs = <<>> THEN <<>>
    ELSE [j \in 1..Head(imgs).shape[t + 1] |-> Head(imgs).name]
            \o TimeOrder(Tail(imgs), t)

\* np.concatenate(images, axis=t_index), written with the first file's axes
Concatenate(imgs, t) ==
    [axes  |-> imgs[1].axes,
     shape |-> [imgs[1].shape EXCEPT ![t + 1] = Len(TimeOrder(imgs, t))],
     order |-> TimeOrder(imgs, t)]

\* lines 86-101 (main.py 40-53): the files are read in sorted order
M_Read ==
    /\ merge_pc = "read"
    /\ images' = Sorted(tiff_files)
    /\ merge_pc' = "validate"
    /\ UNCHANGED <<stabVars, req, convVars, program, tiff_files, merge_exc,
                   merged_file, stabilized_file>>

\* lines 103-125 (main.py 55-75): a failed check raises; nothing was written
M_Validate ==
    /\ merge_pc = "validate"
    /\ IF Validate(images) = "ok"
       THEN merge_pc' = "merge" /\ merge_exc' = merge_exc
       ELSE merge_pc' = "rejected" /\ merge_exc' = Validate(images)
    /\ UNCHANGED <<stabVars, req, convVars, program, tiff_files, images,
                   merged_file, stabilized_file>>

\* lines 127-133 (main.py 77-85): the merged volume is written
M_Merge ==
    /\ merge_pc = "merge"
    /\ merged_file' = Concatenate(images, Find(images[1].axes, "T"))
    /\ merge_pc' = "stabilize"
    /\ UNCHANGED <<stabVars, req, convVars, program, tiff_files, images,
                   merge_exc, stabilized_file>>

\* lines 135-169: the API runs the selected stabilizer on the merged file;
\* main.py 91-93 constructs ImageStabilizer with two paths, which raises
M_Stabilize ==
    /\ merge_pc = "stabilize"
    /\ IF program = "cli"
       THEN /\ merge_pc' = "failed"
            /\ merge_exc' = WrongArguments
            /\ UNCHANGED stabilized_file
       ELSE \E m \in Methods, run \in RunEnds :
              IF Dispatch(m) = "none"
              THEN /\ merge_pc' = "failed"
                   /\ merge_exc' = InvalidMethod
                   /\ UNCHANGED stabilized_file
              ELSE IF run = "raised"
              THEN /\ merge_pc' = "failed"
                   /\ merge_exc' = "stabilization failed"
                   /\ UNCHANGED stabilized_file
              ELSE /\ merge_pc' = "done"
                   /\ stabilized_file' = "written"
                   /\ UNCHANGED merge_exc
    /\ UNCHANGED <<stabVars, req, convVars, program, tiff_files, images,
                   merged_file>>

NextMerge == M_Read \/ M_Validate \/ M_Merge \/ M_Stabilize

SpecMerge == InitMerge /\ [][NextMerge]_vars

\* the acquisition the others are compared with: the first in sorted order
FirstFile == CHOOSE f \in tiff_files : \A g \in tiff_files : f.name <= g.name

\* some acquisition disagrees with the first on the axis string, the axis
\* string has no 'T', or some acquisition disagrees on a dimension besides 'T'
MergeInvalid ==
    \/ \E f \in tiff_files : f.axes # FirstFile.axes
    \/ "T" \notin Labels(FirstFile.axes)
    \/ \E f \in tiff_files : \E k \in 1..Len(FirstFile.shape) :
          k # PosOf(FirstFile.axes, "T") /\ f.shape[k] # FirstFile.shape[k]

RECURSIVE TimeLengthSum(_, _)
TimeLengthSum(files, tpos) ==
    IF files = {} THEN 0
    ELSE LET f == CHOOSE g \in files : TRUE
         IN f.shape[tpos] + TimeLengthSum(files \ {f}, tpos)

\* C21: nothing is written before the merge is validated; an invalid set of
\* acquisitions is rejected and gets neither a merged nor a stabilized file;
\* a merged file has the first acquisition's axes and dimensions, except
\* that its 'T' length is the sum of the acquisitions' 'T' lengths, the time
\* steps following the sorted order of the files
C21_MergeValidatedThenConcatenated ==
    merge_pc # "idle" =>
        /\ merge_pc \in {"read", "validate"} =>
              (merged_file = NoFile /\ stabilized_file = "none")
        /\ MergeInvalid =>
              /\ merge_pc \in {"read", "validate", "rejected"}
              /\ merged_file = NoFile
              /\ stabilized_file = "none"
        /\ merge_pc = "rejected" => (MergeInvalid /\ merge_exc # "")
        /\ stabilized_file = "written" => merged_file # NoFile
        /\ merged_file # NoFile =>
              LET tpos == PosOf(FirstFile.axes, "T")
              IN /\ merged_file.axes = FirstFile.axes
                 /\ Len(merged_file.shape) = Len(FirstFile.shape)
                 /\ merged_file.shape[tpos] = TimeLengthSum(tiff_files, tpos)
                 /\ \A k \in 1..Len(FirstFile.shape) :
                       k # tpos => merged_file.shape[k] = FirstFile.shape[k]
                 /\ Len(merged_file.order) = merged_file.shape[tpos]
                 /\ \A a, b \in 1..Len(merged_file.order) :
                       a < b => merged_file.order[a] <= merged_file.order[b]
                 /\ \A f \in tiff_files :
                       Cardinality({a \in 1..Len(merged_file.order) :
                                       merged_file.order[a] = f.name})
                          = f.shape[tpos]

\* two acquisitions of different 'T' lengths, 'T' being their second axis,
\* were merged and the merged file stabilized
C21_Witness ==
    /\ program = "api"
    /\ stabilized_file = "written"
    /\ merged_file # NoFile
    /\ merged_file.axes = <<"Z", "T", "Y", "X">>
    /\ \E f, g \in tiff_files : f.shape[2] < g.shape[2]
    /\ merged_file.shape[2] >= 3

\* C22: a /stabilize response that carries the stabilized file finds that
\* file in place when its body is sent
C22_StabilizedFileExistsWhenSent ==
    \A r \in Requests :
        (/\ req[r].endpoint = "stabilize"
         /\ req[r].status = 200
         /\ req[r].pc = "sent") => req[r].sent = "file"

\* the event loop runs every handler and every scheduled task to its end
ApiFairness ==
    \A r \in Requests :
        /\ WF_vars(C_SaveUploads(r) \/ C_Converted(r) \/ C_Zipped(r)
                      \/ C_MergeAndStabilize(r))
        /\ WF_vars(CleanupDirectories(r))

SpecApiFair == SpecApi /\ ApiFairness

C24_VMStartedOnlyWhenNotInitialized ==
    [][/\ vm_starts' # vm_starts =>
            /\ ~_vm_initialized
            /\ vm_starts' = vm_starts + 1
            /\ \E t \in Threads :
                 /\ _lock = t
                 /\ thr[t].pc = "e_locked"
                 /\ IF _vm_initialized'
                    THEN /\ vm' = "running"
                         /\ thr'[t].pc \in {"constructed", "attach"}
                         /\ thr'[t].exc = ""
                    ELSE /\ thr'[t].pc = "raised"
                         /\ thr'[t].exc = VMStartFailed
       /\ (~_vm_initialized /\ _vm_initialized') =>
            /\ vm_starts' = vm_starts + 1
            /\ vm' = "running"]_vars

\* a thread that saw the flag false before it took the lock holds the lock
\* now that another thread has started the VM
C24_Witness ==
    \E t, u \in Threads :
        /\ t # u
        /\ thr[t].pc = "e_locked"
        /\ thr[u].pc \notin {"new", "e_check", "e_lock", "raised"}
        /\ _vm_initialized
        /\ vm_starts = 1
        /\ kills = {}

\* C25: kill_vm is executed only while no thread other than its caller holds
\* the lock and no thread is inside the locked read/write section of
\* convert, and no two threads are inside that section together
C25_NoKillInsideLockedSection ==
    /\ \A k \in kills :
          /\ k.section = {}
          /\ k.lock = k.caller
    /\ Cardinality({t \in Threads : thr[t].pc = "f_locked"}) <= 1

====
